---- MODULE Spec2Model ----
(***************************************************************************)
(* crud_multiversx: an HTTP CRUD service over an in-memory store of        *)
(* Person records (src/crud_multiversx/src/main.rs).                       *)
(*                                                                         *)
(* One process of the model is one invocation of `router`.  A handler is   *)
(* cut into steps at its suspension points (the `.await` of the body read) *)
(* and at the acquisition of the store mutex; everything a handler does    *)
(* between acquiring the mutex and returning its response is synchronous.  *)
(* Strings that the code inspects character by character (request paths)   *)
(* are sequences of one-character strings.                                 *)
(***************************************************************************)
EXTENDS Integers, Sequences, FiniteSets, TLC

(***************************************************************************)
(* Bounds of the model.                                                    *)
(***************************************************************************)
\* Number of successful creates in one run of the serial client (caps the
\* ids, which only grow through max+1).
MaxCreates == 5
\* Number of successful creates in one run under concurrent requests.
MaxConcurrentCreates == 2
\* Number of successful creates in one run under fair scheduling.
MaxFairCreates == 1

\* The router invocations that can be in flight at once.
Procs == {1, 2}
NoProc == 0

(***************************************************************************)
(* Inputs.                                                                 *)
(***************************************************************************)
Methods == {"GET", "POST", "PUT", "DELETE"}

\* "/persons" and "/persons/" as character sequences.
Persons == <<"/", "p", "e", "r", "s", "o", "n", "s">>
Prefix == Persons \o <<"/">>
Other == <<"/", "o", "t", "h", "e", "r">>

\* Identifier tokens put after the prefix "/persons/".
IdTokens ==
    { <<"1">>, <<"2">>, <<"3">>, <<"4">>,
      <<>>, <<"a", "b", "c">>,
      <<"1", "/", "2">>,
      Prefix \o <<"1">> }

Paths == {Persons, Other} \cup {Prefix \o t : t \in IdTokens}

\* struct Person
NoPerson == [id |-> 0, name |-> "", age |-> 0]

\* Request bodies: bytes that are the JSON text of a Person (value), or bytes
\* that do not decode to a Person.  The id field is the client's choice.
Drafts ==
    { [id |-> 0, name |-> "Ada", age |-> 37],
      [id |-> 99, name |-> "Ada L.", age |-> 38] }
NotJson == [wellformed |-> FALSE, value |-> NoPerson]
Bodies == {[wellformed |-> TRUE, value |-> v] : v \in Drafts} \cup {NotJson}

VARIABLES
    db,            \* HashMap<u64, Person> behind the mutex
    db_lock,       \* holder of the mutex, NoProc when free
    pc,            \* position of each router invocation
    req,           \* method and path of the request being handled
    id,            \* the parsed path id of each invocation
    new_person,    \* decoded body of a POST (new_person) or PUT (updated_data)
    new_id,        \* the id a POST computed
    out,           \* the exchange completed by the step just taken, if any
    serial,        \* the requests are issued one at a time by one client
    creates,       \* history: number of successful creates
    deleted,       \* history: a delete has removed an entry
    returned,      \* history: ids returned by creates
    retired,       \* history (serial): ids deleted while not the maximum
    live,          \* history: the records as the answers describe them
    last           \* history (serial): the last successful mutation of the store

histVars == <<creates, deleted, returned, retired, live, last>>
vars == <<db, db_lock, pc, req, id, new_person, new_id, out, serial,
          creates, deleted, returned, retired, live, last>>

(***************************************************************************)
(* Pure helpers.                                                           *)
(***************************************************************************)
EmptyMap == [k \in {} |-> NoPerson]

\* keys().max()
MaxKey(m) == CHOOSE k \in DOMAIN m : \A j \in DOMAIN m : j <= k

\* str::starts_with
StartsWith(s, pre) ==
    /\ Len(s) >= Len(pre)
    /\ SubSeq(s, 1, Len(pre)) = pre

\* str::trim_start_matches: removes the pattern from the front repeatedly.
RECURSIVE TrimStartMatches(_, _)
TrimStartMatches(s, pat) ==
    IF StartsWith(s, pat)
    THEN TrimStartMatches(SubSeq(s, Len(pat) + 1, Len(s)), pat)
    ELSE s

DigitChars == {"0", "1", "2", "3", "4", "5", "6", "7", "8", "9"}
DigitVal(c) ==
    CASE c = "0" -> 0 [] c = "1" -> 1 [] c = "2" -> 2 [] c = "3" -> 3
      [] c = "4" -> 4 [] c = "5" -> 5 [] c = "6" -> 6 [] c = "7" -> 7
      [] c = "8" -> 8 [] c = "9" -> 9

RECURSIVE DigitsVal(_)
DigitsVal(s) ==
    IF s = <<>> THEN 0
    ELSE DigitsVal(SubSeq(s, 1, Len(s) - 1)) * 10 + DigitVal(s[Len(s)])

\* u64::from_str: an optional leading '+', then one or more decimal digits.
\* (The overflow error needs a token of 20 digits; the tokens are shorter.)
ParseDigits(s) == IF s # <<>> /\ s[1] = "+" THEN Tail(s) ELSE s
ParseOk(s) ==
    /\ ParseDigits(s) # <<>>
    /\ \A i \in 1..Len(ParseDigits(s)) : ParseDigits(s)[i] \in DigitChars
ParseU64(s) == DigitsVal(ParseDigits(s))

\* serde_json::from_slice::<Person>
DecodeOk(body) == body.wellformed
Decode(body) == body.value

\* Mutants of NewId: the number of entries plus one; the first unused id.
NewIdByCount(m) == Cardinality(DOMAIN m) + 1
NewIdFirstFree(m) ==
    CHOOSE k \in 1..(Cardinality(DOMAIN m) + 1) :
        /\ k \notin DOMAIN m
        /\ \A j \in 1..(k - 1) : j \in DOMAIN m

\* The id allocation of POST /persons.  (u64: the sum wraps or panics only at
\* 2^64 - 1, and the ids of a run stay at or below its number of creates.)
NewId(m) == IF DOMAIN m = {} THEN 1 ELSE MaxKey(m) + 1

\* Mutant of AssignId: the client's id is kept.
AssignIdKeep(p, n) == p

\* new_person.id = new_id
AssignId(p, n) == [p EXCEPT !.id = n]

\* Mutant of Insert: the entry is stored before its id is assigned.
InsertStale(m, k, v) == (k :> [v EXCEPT !.id = 0]) @@ m

\* HashMap::insert
Insert(m, k, v) == (k :> v) @@ m

\* Mutant of Remove: the entries from k on are dropped.
RemoveFrom(m, k) == [j \in {i \in DOMAIN m : i < k} |-> m[j]]

\* Mutant of Remove: the entry is looked up but not removed.
RemoveNothing(m, k) == m

\* HashMap::remove
Remove(m, k) == [j \in DOMAIN m \ {k} |-> m[j]]

\* Mutants of ApplyPatch: the whole decoded body replaces the entry; the age
\* is not applied.
ApplyPatchWhole(person, updated_data) == updated_data
ApplyPatchNameOnly(person, updated_data) ==
    [person EXCEPT !.name = updated_data.name]

\* person.name = updated_data.name; person.age = updated_data.age
ApplyPatch(person, updated_data) ==
    [person EXCEPT !.name = updated_data.name, !.age = updated_data.age]

\* Mutant of Values: the ids are taken to be the dense range 1..len.
ValuesDense(m) == {m[k] : k \in DOMAIN m \cap (1..Cardinality(DOMAIN m))}

\* db_lock.values().collect(): iteration order is unspecified, kept as a set.
Values(m) == {m[k] : k \in DOMAIN m}

\* Mutant of Released: the guard is leaked and the mutex stays locked.
NotReleased == db_lock

\* The mutex once the guard db_lock goes out of scope.
Released == NoProc

\* Mutant of LockFree: the store is used without mutual exclusion.
LockAlwaysFree == TRUE

\* Mutex::lock returns only when no one holds the mutex.
LockFree == db_lock = NoProc

(***************************************************************************)
(* Exchanges: a request and the response the router returned for it.       *)
(***************************************************************************)
NoReq == [method |-> "", path |-> <<>>]
NoResp ==
    [method |-> "", path |-> <<>>, body |-> NoPerson, status |-> 0,
     kind |-> "none", text |-> "", person |-> NoPerson, list |-> {},
     json |-> "none"]

\* Response::builder().status(st).body(Body::from(t)), Response::new(Body::from(t)).
\* The diagnostic texts are written here without their diacritics.
TextResp(r, body, st, t) ==
    [method |-> r.method, path |-> r.path, body |-> body, status |-> st,
     kind |-> "text", text |-> t, person |-> NoPerson, list |-> {},
     json |-> "none"]
\* Response::new(Body::from(serde_json::to_string(person))); from tells what
\* to_string is given: "local" for a value owned by the handler, "store" for
\* a reference into the map.
PersonResp(r, body, v, from) ==
    [method |-> r.method, path |-> r.path, body |-> body, status |-> 200,
     kind |-> "person", text |-> "", person |-> v, list |-> {},
     json |-> from]
\* Response::new(Body::from(serde_json::to_string(&persons))), persons being
\* a Vec<&Person> of references into the map.
ListResp(r, vs) ==
    [method |-> r.method, path |-> r.path, body |-> NoPerson, status |-> 200,
     kind |-> "list", text |-> "", person |-> NoPerson, list |-> vs,
     json |-> "store"]

(***************************************************************************)
(* History.  Record is conjoined to every step that operates on the store: *)
(* k is the id the response names (POST) or the path id, body the decoded  *)
(* request body, v the record in the response.                             *)
(***************************************************************************)
NoOp == [method |-> "", id |-> 0, person |-> NoPerson]

Seen(k, body) == [id |-> k, name |-> body.name, age |-> body.age]

Record(method, k, status, body, v) ==
    LET created == method = "POST" /\ status = 200
        updated == method = "PUT" /\ status = 200
        removed == method = "DELETE" /\ status = 200
    IN  /\ creates' = IF created THEN creates + 1 ELSE creates
        /\ deleted' = (deleted \/ removed)
        /\ returned' = IF created THEN returned \cup {k} ELSE returned
        /\ live' =
             IF created THEN (k :> Seen(k, body)) @@ live
             ELSE IF updated THEN [live EXCEPT ![k] = Seen(k, body)]
             ELSE IF removed THEN [j \in DOMAIN live \ {k} |-> live[j]]
             ELSE live
        /\ IF serial
           THEN /\ retired' =
                     IF created THEN retired \ {k}
                     ELSE IF removed /\ k # MaxKey(db) THEN retired \cup {k}
                     ELSE retired
                /\ last' =
                     IF created \/ updated \/ removed
                     THEN [method |-> method, id |-> k, person |-> v]
                     ELSE last
           ELSE UNCHANGED <<retired, last>>

InitState ==
    /\ db = EmptyMap
    /\ db_lock = NoProc
    /\ pc = [p \in Procs |-> "idle"]
    /\ req = [p \in Procs |-> NoReq]
    /\ id = [p \in Procs |-> 0]
    /\ new_person = [p \in Procs |-> NoPerson]
    /\ new_id = [p \in Procs |-> 0]
    /\ out = NoResp
    /\ creates = 0
    /\ deleted = FALSE
    /\ returned = {}
    /\ retired = {}
    /\ live = EmptyMap
    /\ last = NoOp

\* main: the store starts empty; requests arrive concurrently.
Init == InitState /\ serial = FALSE

\* The same server used by one client that issues its requests one at a time.
InitSerial == InitState /\ serial = TRUE

\* service_fn hands a request to a new router invocation.
Accepts(p) ==
    /\ pc[p] = "idle"
    /\ serial => p = 1

\* A handler that returns: its locals are dropped.
Return(p) ==
    /\ pc' = [pc EXCEPT ![p] = "idle"]
    /\ req' = [req EXCEPT ![p] = NoReq]
    /\ id' = [id EXCEPT ![p] = 0]
    /\ new_person' = [new_person EXCEPT ![p] = NoPerson]
    /\ new_id' = [new_id EXCEPT ![p] = 0]

\* The bound on the creates of a run.
CreateCap == IF serial THEN MaxCreates ELSE MaxConcurrentCreates

\* Creates accepted or under way.
PostsInFlight ==
    Cardinality({q \in Procs :
        pc[q] \in {"post_body", "post_lock", "post_alloc", "post_insert"}})

(***************************************************************************)
(* POST /persons                                                           *)
(***************************************************************************)
PostPersons(p) ==
    /\ Accepts(p)
    /\ creates + PostsInFlight < CreateCap
    /\ pc' = [pc EXCEPT ![p] = "post_body"]
    /\ req' = [req EXCEPT ![p] = [method |-> "POST", path |-> Persons]]
    /\ out' = NoResp
    /\ UNCHANGED <<db, db_lock, id, new_person, new_id, serial>>
    /\ UNCHANGED histVars

PostReadBody(p) ==
    /\ pc[p] = "post_body"
    /\ \E whole_body \in Bodies :
         IF DecodeOk(whole_body)
         THEN /\ new_person' = [new_person EXCEPT ![p] = Decode(whole_body)]
              /\ pc' = [pc EXCEPT ![p] = "post_lock"]
              /\ out' = NoResp
              /\ UNCHANGED <<req, id, new_id>>
         ELSE /\ out' = TextResp(req[p], NoPerson, 400, "JSON invalido")
              /\ Return(p)
    /\ UNCHANGED <<db, db_lock, serial>>
    /\ UNCHANGED histVars

PostLock(p) ==
    /\ pc[p] = "post_lock"
    /\ LockFree
    /\ db_lock' = p
    /\ pc' = [pc EXCEPT ![p] = "post_alloc"]
    /\ out' = NoResp
    /\ UNCHANGED <<db, req, id, new_person, new_id, serial>>
    /\ UNCHANGED histVars

PostAlloc(p) ==
    /\ pc[p] = "post_alloc"
    /\ new_id' = [new_id EXCEPT ![p] = NewId(db)]
    /\ pc' = [pc EXCEPT ![p] = "post_insert"]
    /\ out' = NoResp
    /\ UNCHANGED <<db, db_lock, req, id, new_person, serial>>
    /\ UNCHANGED histVars

PostInsert(p) ==
    /\ pc[p] = "post_insert"
    /\ LET stored == AssignId(new_person[p], new_id[p]) IN
         /\ db' = Insert(db, new_id[p], stored)
         /\ out' = PersonResp(req[p], new_person[p], stored, "local")
         /\ Record("POST", stored.id, 200, new_person[p], stored)
    /\ db_lock' = Released
    /\ Return(p)
    /\ UNCHANGED serial

(***************************************************************************)
(* GET /persons                                                            *)
(***************************************************************************)
GetPersons(p) ==
    /\ Accepts(p)
    /\ pc' = [pc EXCEPT ![p] = "list_lock"]
    /\ req' = [req EXCEPT ![p] = [method |-> "GET", path |-> Persons]]
    /\ out' = NoResp
    /\ UNCHANGED <<db, db_lock, id, new_person, new_id, serial>>
    /\ UNCHANGED histVars

ListLock(p) ==
    /\ pc[p] = "list_lock"
    /\ LockFree
    /\ db_lock' = p
    /\ pc' = [pc EXCEPT ![p] = "list_cs"]
    /\ out' = NoResp
    /\ UNCHANGED <<db, req, id, new_person, new_id, serial>>
    /\ UNCHANGED histVars

ListValues(p) ==
    /\ pc[p] = "list_cs"
    /\ out' = ListResp(req[p], Values(db))
    /\ Record("GET", 0, 200, NoPerson, NoPerson)
    /\ db_lock' = Released
    /\ Return(p)
    /\ UNCHANGED <<db, serial>>

(***************************************************************************)
(* Item paths: the id token of GET, PUT and DELETE /persons/{id}           *)
(***************************************************************************)
IdStr(path) == TrimStartMatches(path, Prefix)

\* The Err(_) arm of id_str.parse::<u64>(): 400 without touching the store.
BadId(p, method) ==
    /\ Accepts(p)
    /\ \E path \in Paths :
         /\ StartsWith(path, Prefix)
         /\ ~ParseOk(IdStr(path))
         /\ out' = TextResp([method |-> method, path |-> path], NoPerson, 400,
                            "ID invalido")
    /\ UNCHANGED <<db, db_lock, pc, req, id, new_person, new_id, serial>>
    /\ UNCHANGED histVars

\* The Ok(id) arm: the handler goes on to position `to` with the parsed id.
GoodId(p, method, to) ==
    /\ Accepts(p)
    /\ \E path \in Paths :
         /\ StartsWith(path, Prefix)
         /\ ParseOk(IdStr(path))
         /\ id' = [id EXCEPT ![p] = ParseU64(IdStr(path))]
         /\ req' = [req EXCEPT ![p] = [method |-> method, path |-> path]]
    /\ pc' = [pc EXCEPT ![p] = to]
    /\ out' = NoResp
    /\ UNCHANGED <<db, db_lock, new_person, new_id, serial>>
    /\ UNCHANGED histVars

(***************************************************************************)
(* GET /persons/{id}                                                       *)
(***************************************************************************)
GetPerson(p) == GoodId(p, "GET", "get_lock")

GetPersonBadId(p) == BadId(p, "GET")

GetLock(p) ==
    /\ pc[p] = "get_lock"
    /\ LockFree
    /\ db_lock' = p
    /\ pc' = [pc EXCEPT ![p] = "get_cs"]
    /\ out' = NoResp
    /\ UNCHANGED <<db, req, id, new_person, new_id, serial>>
    /\ UNCHANGED histVars

GetLookup(p) ==
    /\ pc[p] = "get_cs"
    /\ IF id[p] \in DOMAIN db
       THEN /\ out' = PersonResp(req[p], NoPerson, db[id[p]], "store")
            /\ Record("GET", id[p], 200, NoPerson, db[id[p]])
       ELSE /\ out' = TextResp(req[p], NoPerson, 404, "Pessoa nao encontrada")
            /\ Record("GET", id[p], 404, NoPerson, NoPerson)
    /\ db_lock' = Released
    /\ Return(p)
    /\ UNCHANGED <<db, serial>>

(***************************************************************************)
(* PUT /persons/{id}                                                       *)
(***************************************************************************)
PutPerson(p) == GoodId(p, "PUT", "put_body")

PutPersonBadId(p) == BadId(p, "PUT")

PutReadBody(p) ==
    /\ pc[p] = "put_body"
    /\ \E whole_body \in Bodies :
         IF DecodeOk(whole_body)
         THEN /\ new_person' = [new_person EXCEPT ![p] = Decode(whole_body)]
              /\ pc' = [pc EXCEPT ![p] = "put_lock"]
              /\ out' = NoResp
              /\ UNCHANGED <<req, id, new_id>>
         ELSE /\ out' = TextResp(req[p], NoPerson, 400, "JSON invalido")
              /\ Return(p)
    /\ UNCHANGED <<db, db_lock, serial>>
    /\ UNCHANGED histVars

PutLock(p) ==
    /\ pc[p] = "put_lock"
    /\ LockFree
    /\ db_lock' = p
    /\ pc' = [pc EXCEPT ![p] = "put_cs"]
    /\ out' = NoResp
    /\ UNCHANGED <<db, req, id, new_person, new_id, serial>>
    /\ UNCHANGED histVars

PutUpdate(p) ==
    /\ pc[p] = "put_cs"
    /\ IF id[p] \in DOMAIN db
       THEN LET person == ApplyPatch(db[id[p]], new_person[p]) IN
              /\ db' = [db EXCEPT ![id[p]] = person]
              /\ out' = PersonResp(req[p], new_person[p], person, "store")
              /\ Record("PUT", id[p], 200, new_person[p], person)
       ELSE /\ out' = TextResp(req[p], new_person[p], 404,
                               "Pessoa nao encontrada")
            /\ Record("PUT", id[p], 404, new_person[p], NoPerson)
            /\ UNCHANGED db
    /\ db_lock' = Released
    /\ Return(p)
    /\ UNCHANGED serial

(***************************************************************************)
(* DELETE /persons/{id}                                                    *)
(***************************************************************************)
DeletePerson(p) == GoodId(p, "DELETE", "del_lock")

DeletePersonBadId(p) == BadId(p, "DELETE")

DeleteLock(p) ==
    /\ pc[p] = "del_lock"
    /\ LockFree
    /\ db_lock' = p
    /\ pc' = [pc EXCEPT ![p] = "del_cs"]
    /\ out' = NoResp
    /\ UNCHANGED <<db, req, id, new_person, new_id, serial>>
    /\ UNCHANGED histVars

DeleteRemove(p) ==
    /\ pc[p] = "del_cs"
    /\ IF id[p] \in DOMAIN db
       THEN /\ db' = Remove(db, id[p])
            /\ out' = TextResp(req[p], NoPerson, 200, "Pessoa removida")
            /\ Record("DELETE", id[p], 200, NoPerson, NoPerson)
       ELSE /\ out' = TextResp(req[p], NoPerson, 404, "Pessoa nao encontrada")
            /\ Record("DELETE", id[p], 404, NoPerson, NoPerson)
            /\ UNCHANGED db
    /\ db_lock' = Released
    /\ Return(p)
    /\ UNCHANGED serial

(***************************************************************************)
(* Any other (method, path)                                                *)
(***************************************************************************)
Routed(method, path) ==
    \/ method \in {"POST", "GET"} /\ path = Persons
    \/ method \in {"GET", "PUT", "DELETE"} /\ StartsWith(path, Prefix)

RouteNotFound(p) ==
    /\ Accepts(p)
    /\ \E method \in Methods, path \in Paths :
         /\ ~Routed(method, path)
         /\ out' = TextResp([method |-> method, path |-> path], NoPerson, 404,
                            "Rota nao encontrada")
    /\ UNCHANGED <<db, db_lock, pc, req, id, new_person, new_id, serial>>
    /\ UNCHANGED histVars

Next ==
    \E p \in Procs :
        \/ PostPersons(p)
        \/ PostReadBody(p)
        \/ PostLock(p)
        \/ PostAlloc(p)
        \/ PostInsert(p)
        \/ GetPersons(p)
        \/ ListLock(p)
        \/ ListValues(p)
        \/ GetPerson(p)
        \/ GetPersonBadId(p)
        \/ GetLock(p)
        \/ GetLookup(p)
        \/ PutPerson(p)
        \/ PutPersonBadId(p)
        \/ PutReadBody(p)
        \/ PutLock(p)
        \/ PutUpdate(p)
        \/ DeletePerson(p)
        \/ DeletePersonBadId(p)
        \/ DeleteLock(p)
        \/ DeleteRemove(p)
        \/ RouteNotFound(p)

\* The server under concurrent requests.
Spec == Init /\ [][Next]_vars

\* The server under one client issuing its requests serially.
SpecSerial == InitSerial /\ [][Next]_vars

(***************************************************************************)
(* Scheduling.  The runtime polls every handler that can go on (body read  *)
(* completed, synchronous code), and a handler blocked in Mutex::lock gets *)
(* the mutex at one of the moments it is free.                             *)
(***************************************************************************)
Acquire(p) ==
    PostLock(p) \/ ListLock(p) \/ GetLock(p) \/ PutLock(p) \/ DeleteLock(p)

Proceed(p) ==
    \/ PostReadBody(p) \/ PostAlloc(p) \/ PostInsert(p)
    \/ ListValues(p) \/ GetLookup(p)
    \/ PutReadBody(p) \/ PutUpdate(p)
    \/ DeleteRemove(p)

Fairness == \A p \in Procs : WF_vars(Proceed(p)) /\ SF_vars(Acquire(p))

\* Next with the creates bounded by MaxFairCreates.
NextFair ==
    \E p \in Procs :
        \/ PostPersons(p) /\ creates + PostsInFlight < MaxFairCreates
        \/ PostReadBody(p)
        \/ PostLock(p)
        \/ PostAlloc(p)
        \/ PostInsert(p)
        \/ GetPersons(p)
        \/ ListLock(p)
        \/ ListValues(p)
        \/ GetPerson(p)
        \/ GetPersonBadId(p)
        \/ GetLock(p)
        \/ GetLookup(p)
        \/ PutPerson(p)
        \/ PutPersonBadId(p)
        \/ PutReadBody(p)
        \/ PutLock(p)
        \/ PutUpdate(p)
        \/ DeletePerson(p)
        \/ DeletePersonBadId(p)
        \/ DeleteLock(p)
        \/ DeleteRemove(p)
        \/ RouteNotFound(p)

\* The server under concurrent requests and fair scheduling of the handlers.
SpecFair == Init /\ [][NextFair]_vars /\ Fairness

(***************************************************************************)
(* Vocabulary of the properties.                                           *)
(***************************************************************************)
SetMax(S) == CHOOSE k \in S : \A j \in S : j <= k

IsCreate(o) == o.method = "POST" /\ o.status = 200

\* The handler of p returns from position `at` in this step.
Returns(p, at) == pc[p] = at /\ pc'[p] = "idle"

HasSlash(s) == \E i \in 1..Len(s) : s[i] = "/"

\* The pattern removed from the front of s once.
StripOnce(s, pat) ==
    IF StartsWith(s, pat) THEN SubSeq(s, Len(pat) + 1, Len(s)) ELSE s

\* An item path whose remainder after one "/persons/" holds a further '/'.
ExtraSegment(method, path) ==
    /\ method \in {"GET", "PUT", "DELETE"}
    /\ StartsWith(path, Prefix)
    /\ HasSlash(StripOnce(path, Prefix))

StorePositions ==
    {"get_lock", "get_cs", "put_body", "put_lock", "put_cs", "del_lock", "del_cs"}

(***************************************************************************)
(* C1.  Concurrent creates, while no delete has run: every successful POST *)
(* returns an id that no earlier POST returned, and adds one entry to the  *)
(* store.                                                                  *)
(***************************************************************************)
C1_ConcurrentCreatesDistinct ==
    [][ (IsCreate(out') /\ ~deleted')
          => /\ out'.person.id \notin returned
             /\ Cardinality(DOMAIN db') = Cardinality(DOMAIN db) + 1
             /\ Cardinality(DOMAIN db') = creates' ]_vars

\* A create has answered while another create, its body read, waited for
\* the lock.
C1_Witness ==
    /\ IsCreate(out)
    /\ ~deleted
    /\ \E q \in Procs : pc[q] = "post_lock"

(***************************************************************************)
(* C2.  A successful POST /persons returns id 1 when the store is empty at *)
(* the insert and the largest id of the store plus one otherwise.          *)
(***************************************************************************)
C2_IdIsMaxPlusOne ==
    [][ IsCreate(out')
          => out'.person.id =
                IF DOMAIN db = {} THEN 1 ELSE SetMax(DOMAIN db) + 1 ]_vars

\* Ids 1, 2, 3 created, 2 deleted, 4 created, 4 deleted, and the fifth create
\* has returned 4 again.
C2_Witness ==
    /\ IsCreate(out)
    /\ out.person.id = 4
    /\ creates = 5
    /\ DOMAIN db = {1, 3, 4}
    /\ retired = {2}

(***************************************************************************)
(* C3 as stated.  An id deleted while it was not the maximum is returned   *)
(* by no later POST.                                                       *)
(***************************************************************************)
C3_NonMaxNeverReused ==
    [][ IsCreate(out') => out'.person.id \notin retired ]_vars

(***************************************************************************)
(* C3 amended.  An id deleted while it was not the maximum is not returned *)
(* by a later POST as long as the store holds a greater id.                *)
(***************************************************************************)
C3_NotReusedBelowMax ==
    [][ \A k \in retired :
          (\E j \in DOMAIN db : j > k)
             => ~(IsCreate(out') /\ out'.person.id = k) ]_vars

\* After the delete of a non-maximum id, a create has returned a greater id.
C3_Witness ==
    /\ IsCreate(out)
    /\ \E k \in retired : k < out.person.id

(***************************************************************************)
(* C4.  From the empty store, while no delete has run, the n-th successful *)
(* POST returns id n with the name and age of its body, whatever id the    *)
(* body carried.                                                           *)
(***************************************************************************)
C4_SerialCreatesCount ==
    (IsCreate(out) /\ ~deleted)
       => /\ out.person.id = creates
          /\ out.person.name = out.body.name
          /\ out.person.age = out.body.age

\* The third create of a run without deletes, sent with id 99 in its body.
C4_Witness ==
    /\ IsCreate(out)
    /\ ~deleted
    /\ creates = 3
    /\ out.body.id = 99

(***************************************************************************)
(* C5.  Every entry of the store has a key equal to its value's id, and    *)
(* every key is strictly positive.                                         *)
(***************************************************************************)
C5_KeyIsId ==
    \A k \in DOMAIN db : db[k].id = k /\ k > 0

\* An update whose body carried another id has been applied while a second
\* request was in flight.
C5_Witness ==
    /\ out.method = "PUT"
    /\ out.status = 200
    /\ out.body.id # out.person.id
    /\ \E q \in Procs : pc[q] # "idle"

(***************************************************************************)
(* C6.  A PUT with a valid body on an existing id returns 200 with the     *)
(* body's name and age and the path id; a GET of that id with no mutation  *)
(* in between returns the record the PUT returned; no step changes the id  *)
(* of an entry.                                                            *)
(***************************************************************************)
C6_UpdateThenGet ==
    [][ /\ \A p \in Procs :
             (Returns(p, "put_cs") /\ id[p] \in DOMAIN db)
                => /\ out'.status = 200
                   /\ out'.person =
                        [id |-> id[p], name |-> new_person[p].name,
                         age |-> new_person[p].age]
        /\ \A p \in Procs :
             (Returns(p, "get_cs") /\ last.method = "PUT" /\ last.id = id[p])
                => /\ out'.status = 200
                   /\ out'.person = last.person
        /\ \A k \in DOMAIN db \cap DOMAIN db' : db'[k].id = db[k].id ]_vars

\* A GET of the id just updated is about to read the store.
C6_Witness ==
    /\ pc[1] = "get_cs"
    /\ last.method = "PUT"
    /\ last.id = id[1]
    /\ last.person.name = "Ada L."

(***************************************************************************)
(* C7.  A DELETE on an existing id returns 200 and removes the entry; with *)
(* no mutation in between, a GET and a second DELETE of that id return 404 *)
(* and leave the store as it is.                                           *)
(***************************************************************************)
C7_DeleteThenAbsent ==
    [][ \A p \in Procs :
          /\ (Returns(p, "del_cs") /\ id[p] \in DOMAIN db)
                => /\ out'.status = 200
                   /\ id[p] \notin DOMAIN db'
          /\ (Returns(p, "get_cs") /\ last.method = "DELETE" /\ last.id = id[p])
                => out'.status = 404
          /\ (Returns(p, "del_cs") /\ last.method = "DELETE" /\ last.id = id[p])
                => /\ out'.status = 404
                   /\ db' = db ]_vars

\* A second DELETE of the id just deleted is about to operate on the store.
C7_Witness ==
    /\ pc[1] = "del_cs"
    /\ last.method = "DELETE"
    /\ last.id = id[1]

(***************************************************************************)
(* C8.  A GET of the id a POST returned, with no mutation in between,      *)
(* returns 200 with exactly the record the POST returned.                  *)
(***************************************************************************)
C8_CreateThenGet ==
    [][ \A p \in Procs :
          (Returns(p, "get_cs") /\ last.method = "POST" /\ last.id = id[p])
             => /\ out'.status = 200
                /\ out'.kind = "person"
                /\ out'.person = last.person ]_vars

\* A GET of the id just created is about to read the store.
C8_Witness ==
    /\ pc[1] = "get_cs"
    /\ last.method = "POST"
    /\ last.id = id[1]

(***************************************************************************)
(* C9.  GET /persons returns 200 with one record for every id created and  *)
(* not deleted since, carrying the name and age of its latest successful   *)
(* update or of its creation, and nothing else.                            *)
(***************************************************************************)
C9_ListIsLiveRecords ==
    out.kind = "list"
       => /\ out.status = 200
          /\ out.list = {live[k] : k \in DOMAIN live}
          /\ Cardinality(out.list) = Cardinality(DOMAIN live)

\* A list of two records returned after a delete and an update.
C9_Witness ==
    /\ out.kind = "list"
    /\ Cardinality(out.list) = 2
    /\ deleted
    /\ \E r \in out.list : r.name = "Ada L." /\ r.id = 3

(***************************************************************************)
(* C10 as stated.  A GET, PUT or DELETE whose path, after one removal of   *)
(* "/persons/", holds a further '/' is answered 400 and its handler never  *)
(* goes on towards the store.                                              *)
(***************************************************************************)
C10_ExtraSegmentIs400 ==
    /\ ExtraSegment(out.method, out.path) => out.status = 400
    /\ \A p \in Procs :
         pc[p] \in StorePositions => ~ExtraSegment(req[p].method, req[p].path)

(***************************************************************************)
(* Vocabulary of the error-handling properties.                            *)
(***************************************************************************)
ItemRequest(method, path) ==
    /\ method \in {"GET", "PUT", "DELETE"}
    /\ StartsWith(path, Prefix)

\* The identifier token: what is left of the path after one "/persons/".
Token(path) == StripOnce(path, Prefix)

\* The status mapping and the frame of the error answers, for a given reading
\* tok(path) of the identifier token.
StatusMapping(tok(_)) ==
    /\ out'.status \in {400, 404} => db' = db
    /\ out'.kind # "none" => out'.status \in {200, 400, 404}
    /\ \A p \in Procs :
         (Returns(p, "post_body") \/ Returns(p, "put_body"))
            => out'.status = 400
    /\ (ItemRequest(out'.method, out'.path) /\ ~ParseOk(tok(out'.path)))
            => out'.status = 400
    /\ \A p \in Procs :
         ((Returns(p, "get_cs") \/ Returns(p, "put_cs") \/ Returns(p, "del_cs"))
             /\ id[p] \notin DOMAIN db)
            => out'.status = 404
    /\ (out'.kind # "none"
          /\ ~(out'.method \in {"POST", "GET"} /\ out'.path = Persons)
          /\ ~ItemRequest(out'.method, out'.path))
            => out'.status = 404
    /\ \A p \in Procs :
         (Returns(p, "post_insert") \/ Returns(p, "list_cs")
            \/ ((Returns(p, "get_cs") \/ Returns(p, "put_cs")
                   \/ Returns(p, "del_cs")) /\ id[p] \in DOMAIN db))
            => out'.status = 200

(***************************************************************************)
(* C11 as stated.  An answer of 400 or 404 leaves the store unchanged; a   *)
(* malformed body gives 400, an identifier token that is not a u64 gives   *)
(* 400, a parsed id absent from the store gives 404, any other (method,    *)
(* path) gives 404, and every successful operation answers 200.            *)
(***************************************************************************)
C11_StatusMapping == [][StatusMapping(Token)]_vars

\* The same mapping with the token read as the router reads it (the prefix
\* removed repeatedly): the part of C11 that the code keeps.
C11_StatusMappingRouterToken == [][StatusMapping(IdStr)]_vars

(***************************************************************************)
(* C12.  Every request's store access takes effect at one step between its *)
(* arrival and its answer, and the answers are those of the operations run *)
(* one after another in the order of these steps: each answer is what the  *)
(* serial operation returns on the records built from the earlier answers  *)
(* (live), and the store equals those records after every step.            *)
(***************************************************************************)
SerialNewId(m) == IF DOMAIN m = {} THEN 1 ELSE SetMax(DOMAIN m) + 1

InStore(p) ==
    pc[p] \in {"post_alloc", "post_insert", "list_cs", "get_cs", "put_cs", "del_cs"}

C12_Linearizable ==
    [][ /\ \A p \in Procs :
             /\ Returns(p, "post_insert")
                   => /\ out'.status = 200
                      /\ out'.person = Seen(SerialNewId(live), new_person[p])
             /\ Returns(p, "list_cs")
                   => /\ out'.status = 200
                      /\ out'.list = {live[k] : k \in DOMAIN live}
             /\ Returns(p, "get_cs")
                   => IF id[p] \in DOMAIN live
                      THEN out'.status = 200 /\ out'.person = live[id[p]]
                      ELSE out'.status = 404
             /\ Returns(p, "put_cs")
                   => IF id[p] \in DOMAIN live
                      THEN /\ out'.status = 200
                           /\ out'.person = Seen(id[p], new_person[p])
                      ELSE out'.status = 404
             /\ Returns(p, "del_cs")
                   => IF id[p] \in DOMAIN live
                      THEN out'.status = 200
                      ELSE out'.status = 404
        /\ db' = live'
        /\ db' # db => \E p \in Procs : InStore(p) /\ pc'[p] = "idle" ]_vars

\* A delete has answered 200 while an update of the same id, its body read,
\* waited for the lock.
C12_Witness ==
    /\ out.method = "DELETE"
    /\ out.status = 200
    /\ \E q \in Procs :
         /\ pc[q] = "put_lock"
         /\ id[q] \in returned
         /\ id[q] \notin DOMAIN db

SameExcept(m1, m2, k) ==
    /\ DOMAIN m1 \ {k} = DOMAIN m2 \ {k}
    /\ \A j \in DOMAIN m1 \ {k} : m2[j] = m1[j]

C14_Frame ==
    [][ \A p \in Procs :
          /\ Returns(p, "post_insert")
                => /\ SameExcept(db, db', out'.person.id)
                   /\ out'.person.id \notin DOMAIN db
                   /\ out'.person.id \in DOMAIN db'
          /\ (Returns(p, "put_cs") /\ out'.status = 200)
                => /\ SameExcept(db, db', id[p])
                   /\ DOMAIN db' = DOMAIN db
                   /\ db'[id[p]].id = db[id[p]].id
          /\ (Returns(p, "del_cs") /\ out'.status = 200)
                => /\ SameExcept(db, db', id[p])
                   /\ DOMAIN db' = DOMAIN db \ {id[p]}
          /\ (Returns(p, "list_cs") \/ Returns(p, "get_cs")) => db' = db ]_vars

\* An entry that is not the largest has been deleted from a store of three.
C14_Witness ==
    /\ out.method = "DELETE"
    /\ out.status = 200
    /\ Cardinality(DOMAIN db) = 2
    /\ \E k \in DOMAIN db : k < SetMax(DOMAIN db) /\ k + 1 \notin DOMAIN db

(***************************************************************************)
(* C15.  At most one request holds the store lock, the holder is the one   *)
(* request operating on the store, and no request holds the lock while it  *)
(* is suspended at a body read: POST and PUT have read and decoded their   *)
(* body before they ask for the lock.                                      *)
(***************************************************************************)
AtBodyRead(p) == pc[p] \in {"post_body", "put_body"}

C15_LockDiscipline ==
    /\ Cardinality({p \in Procs : InStore(p)}) <= 1
    /\ \A p \in Procs : InStore(p) <=> db_lock = p
    /\ \A p \in Procs : AtBodyRead(p) => db_lock # p
    /\ \A p \in Procs :
         pc[p] \in {"post_lock", "post_alloc", "post_insert", "put_lock", "put_cs"}
            => new_person[p] \in Drafts

\* One request holds the lock while another is suspended at its body read
\* and a decoded body is about to be applied.
C15_Witness ==
    \E p, q \in Procs :
        /\ db_lock = p
        /\ pc[p] = "put_cs"
        /\ AtBodyRead(q)

(***************************************************************************)
(* C16 as stated.  A handler that answers with record data serializes it   *)
(* after it has released the store lock, or from a value of its own: never *)
(* from references into the store while it holds the lock.  (A handler     *)
(* serializes in the step in which it returns; the lock it holds at that   *)
(* step is released at the end of it.)                                     *)
(***************************************************************************)
C16_SerializeOffTheStore ==
    [][ \A p \in Procs :
          (pc[p] # "idle" /\ pc'[p] = "idle" /\ out'.kind \in {"person", "list"})
             => (db_lock # p \/ out'.json = "local") ]_vars

(***************************************************************************)
(* The order of validation of PUT /persons/{id}, for a given reading       *)
(* tok(path) of the identifier token: token, then body, then existence.    *)
(***************************************************************************)
PutItem(o) == o.method = "PUT" /\ StartsWith(o.path, Prefix)

ValidationOrder(tok(_)) ==
    \* a token that does not parse: 400, and the handler never reads the body
    /\ (PutItem(out') /\ ~ParseOk(tok(out'.path)))
          => out'.status = 400 /\ out'.text = "ID invalido"
    /\ \A p \in Procs :
         pc'[p] \in {"put_body", "put_lock", "put_cs"}
            => ParseOk(tok(req'[p].path))
    \* a body that does not decode: 400 before the store is looked at
    /\ \A p \in Procs :
         Returns(p, "put_body")
            => /\ ParseOk(tok(out'.path))
               /\ out'.status = 400 /\ out'.text = "JSON invalido"
               /\ db_lock # p /\ db' = db
    /\ \A p \in Procs :
         pc'[p] \in {"put_lock", "put_cs"} => new_person'[p] \in Drafts
    \* 404 only for a parsed id, a decoded body and an absent id
    /\ (PutItem(out') /\ out'.status = 404)
          => /\ ParseOk(tok(out'.path))
             /\ out'.body \in Drafts
             /\ ParseU64(tok(out'.path)) \notin DOMAIN db
    /\ \A p \in Procs :
         (Returns(p, "put_cs") /\ id[p] \notin DOMAIN db) => out'.status = 404

(***************************************************************************)
(* C17 as stated.  PUT /persons/{id} validates the id token first, then    *)
(* the body, then existence: a token that is not a u64 gives 400 whatever  *)
(* the body (the body is not read), a malformed body on a parseable id     *)
(* gives 400 whether or not the id is stored, and 404 is returned only     *)
(* when id and body are valid and the id is absent.                        *)
(***************************************************************************)
C17_ValidationOrder == [][ValidationOrder(Token)]_vars

\* The same order with the token read as the router reads it (the prefix
\* removed repeatedly): the part of C17 that the code keeps.
C17_ValidationOrderRouterToken == [][ValidationOrder(IdStr)]_vars

(***************************************************************************)
(* C18.  The id a POST /persons assigns is greater than every id the store *)
(* holds at the insert, so the insert overwrites no entry: the entries     *)
(* that were there stay as they were, and the number of entries grows by   *)
(* one with each successful create and shrinks by one with each successful *)
(* delete.                                                                 *)
(***************************************************************************)
C18_CreateAboveAll ==
    [][ \A p \in Procs :
          /\ Returns(p, "post_insert")
                => /\ \A k \in DOMAIN db : out'.person.id > k
                   /\ \A k \in DOMAIN db : k \in DOMAIN db' /\ db'[k] = db[k]
                   /\ Cardinality(DOMAIN db') = Cardinality(DOMAIN db) + 1
          /\ (Returns(p, "del_cs") /\ out'.status = 200)
                => Cardinality(DOMAIN db') = Cardinality(DOMAIN db) - 1 ]_vars

\* A create has been answered on a store that had lost an entry below its
\* largest id.
C18_Witness ==
    /\ IsCreate(out)
    /\ \E k \in retired :
         /\ k \notin DOMAIN db
         /\ \E j \in DOMAIN db : k < j /\ j < out.person.id

(***************************************************************************)
(* C19.  The largest id of the store, as a key and as the id field of a    *)
(* record, is at most the number of successful creates so far, whatever id *)
(* the bodies of POST and PUT carried; so the id a create is about to      *)
(* insert, the largest plus one, is at least 1 and at most that number     *)
(* plus one, and the u64 sum cannot wrap in a run of fewer than 2^64 - 1   *)
(* creates.                                                                *)
(***************************************************************************)
C19_MaxIdWithinCreates ==
    /\ \A k \in DOMAIN db : k <= creates /\ db[k].id <= creates
    /\ \A p \in Procs :
         pc[p] = "post_insert" => new_id[p] >= 1 /\ new_id[p] <= creates + 1

\* An update sent with id 99 in its body has been applied to the entry of
\* the largest id, the one the latest of two or more creates inserted.
C19_Witness ==
    /\ out.method = "PUT"
    /\ out.status = 200
    /\ out.body.id = 99
    /\ creates >= 2
    /\ out.person.id = SetMax(DOMAIN db)
    /\ out.person.id = creates

====
